---------------------------- MODULE Spec2Model ----------------------------
(***************************************************************************)
(* attach-volume: a command-line run attaches an EBS volume to an          *)
(* instance, optionally detaching it first, then optionally mounts a       *)
(* partition and appends a line to /etc/fstab.                             *)
(*                                                                         *)
(* The model holds the provider's record of every volume (what             *)
(* EC2.describe_volumes returns), the host's mount commands and /etc/fstab,*)
(* and, for every invocation of main, its parsed arguments, its position   *)
(* in main, the locals of volume_state_wait and the log of what it did.    *)
(***************************************************************************)
EXTENDS Integers, Sequences, FiniteSets, TLC

VARIABLES
    ec2,            \* provider: volume id -> the volume's describe_volumes record
    args,           \* invocation -> the namespace _options() returned
    pc,             \* invocation -> position in main
    desired_state,  \* invocation -> volume_state_wait's desired_state
    ret,            \* invocation -> where volume_state_wait returns to
    state,          \* invocation -> volume_state_wait's local `state`
    trace,          \* invocation -> log of the calls, sleeps and observations made
    exit_status,    \* invocation -> NoStatus while running, else the exit status
    mounts,         \* host: the mount commands handed to os.system
    etc_fstab,      \* host: the lines of /etc/fstab
    described       \* history: invocation -> the instance ids its first describe_volumes listed

vars == <<ec2, args, pc, desired_state, ret, state, trace, exit_status,
          mounts, etc_fstab, described>>

---------------------------------------------------------------------------
(* Bounds of the model *)

\* longest attachment list a volume starts with
MaxAttachments == 2

\* polls one call of volume_state_wait may make in the model
MaxPolls == 3

---------------------------------------------------------------------------
(* Values *)

Procs == {"p1", "p2"}

Volumes == {"vol-1", "vol-2"}

Instances == {"i-1", "i-2", "i-3"}

\* get_volume_state's docstring: the states an attachment can be in
AttachmentStates == {"attaching", "attached", "detaching", "detached", "busy"}

DefaultDevice == "/dev/xvdf"

DefaultFsType == "xfs"

SleepSeconds == 3

\* the exit status of an invocation that has not ended
NoStatus == -1

Attachment == [InstanceId : Instances, State : AttachmentStates, Device : {DefaultDevice}]

\* the attachment lists up to length n
RECURSIVE AttachmentLists(_)
AttachmentLists(n) ==
    IF n = 0 THEN {<<>>}
    ELSE LET shorter == AttachmentLists(n - 1)
         IN  shorter \cup
             { Append(l, a) : l \in {s \in shorter : Len(s) = n - 1}, a \in Attachment }

DistinctInstances(l) ==
    \A j, k \in 1..Len(l) : j # k => l[j].InstanceId # l[k].InstanceId

\* the describe_volumes records of a volume: the Attachments key may be absent
VolumeRecords(v) ==
    { [VolumeId |-> v] } \cup
    { [VolumeId |-> v, Attachments |-> l] : l \in AttachmentLists(MaxAttachments) }

\* the namespaces _options() can return; volume and instance ids are opaque,
\* so one volume id and two of the instance ids stand for all
Namespaces ==
    [volume : {"vol-1"}, force : BOOLEAN, device : {DefaultDevice},
     instance : {"i-1", "i-2"}, partition : {"", "uuid-1"},
     mount_point : {"", "/mnt/data"}, fstab : BOOLEAN, fs_type : {DefaultFsType}]

Event(ev, vol, inst, dev, val) ==
    [ev |-> ev, vol |-> vol, inst |-> inst, dev |-> dev, val |-> val]

---------------------------------------------------------------------------
(* The provider *)

\* dict.get(key, default)
Get(r, key, default) == IF key \in DOMAIN r THEN r[key] ELSE default

\* EC2.describe_volumes(VolumeIds=[volume])['Volumes'][0]
describe_volumes(volume) == ec2[volume]

\* the record of a volume with its attachment list replaced
WithAttachments(r, l) == [VolumeId |-> r.VolumeId, Attachments |-> l]

\* EC2.detach_volume(Force=True, VolumeId=volume_id): every attachment still
\* held starts detaching
detach_volume(r) ==
    LET l == Get(r, "Attachments", <<>>)
    IN  WithAttachments(r,
            [k \in 1..Len(l) |->
                IF l[k].State \in {"detaching", "detached"} THEN l[k]
                ELSE [l[k] EXCEPT !.State = "detaching"]])

\* the provider refuses to attach a volume to an instance that has an
\* attachment record for it, and to an instance id that names no instance
attach_refused(r, instance_id) ==
    \/ instance_id \notin Instances
    \/ \E k \in 1..Len(Get(r, "Attachments", <<>>)) :
          r.Attachments[k].InstanceId = instance_id

\* EC2.attach_volume(Device=device, InstanceId=instance_id, VolumeId=volume_id)
attach_volume(r, instance_id, device) ==
    WithAttachments(r,
        Append(Get(r, "Attachments", <<>>),
               [InstanceId |-> instance_id, State |-> "attaching", Device |-> device]))

\* the list l without its k-th entry
Remove(l, k) == [j \in 1..(Len(l) - 1) |-> IF j < k THEN l[j] ELSE l[j + 1]]

\* the provider moves an attachment on, out of band
Provider(v, k) ==
    /\ k \in 1..Len(Get(ec2[v], "Attachments", <<>>))
    /\ LET l == ec2[v].Attachments
       IN  \/ /\ l[k].State = "attaching"
              /\ ec2' = [ec2 EXCEPT ![v] =
                            WithAttachments(@, [l EXCEPT ![k].State = "attached"])]
           \/ /\ l[k].State = "detaching"
              /\ ec2' = [ec2 EXCEPT ![v] = WithAttachments(@, [l EXCEPT ![k].State = "busy"])]
           \/ /\ l[k].State \in {"detaching", "detached", "busy"}
              /\ ec2' = [ec2 EXCEPT ![v] = WithAttachments(@, Remove(l, k))]
    /\ UNCHANGED <<args, pc, desired_state, ret, state, trace, exit_status,
                   mounts, etc_fstab, described>>

---------------------------------------------------------------------------
(* The functions of the program *)

\* get_volume_state reading the last attachment instead of the first
get_volume_state_Last(volume) ==
    LET response == describe_volumes(volume)
    IN  IF Len(Get(response, "Attachments", <<>>)) = 0
        THEN "detached"
        ELSE response.Attachments[Len(response.Attachments)].State

get_volume_state(volume) ==
    LET response == describe_volumes(volume)
    IN  IF Len(Get(response, "Attachments", <<>>)) = 0
        THEN "detached"
        ELSE response.Attachments[1].State

\* is_attached counting every state but 'detached' as attached
is_attached_NotDetached(volume_id) ==
    LET st == get_volume_state(volume_id)
    IN  IF st # "detached" THEN TRUE ELSE FALSE

is_attached(volume_id) ==
    LET st == get_volume_state(volume_id)
    IN  IF st = "attached" THEN TRUE ELSE FALSE

\* the for loop of is_attached_instance, from the k-th attachment on
RECURSIVE ScanAttachments(_, _, _)
ScanAttachments(l, k, instance) ==
    IF k > Len(l) THEN FALSE
    ELSE IF l[k].InstanceId = instance THEN TRUE
    ELSE ScanAttachments(l, k + 1, instance)

\* is_attached_instance looking at the first attachment only
is_attached_instance_First(volume, instance) ==
    LET response == describe_volumes(volume)
    IN  /\ Len(Get(response, "Attachments", <<>>)) > 0
        /\ response.Attachments[1].InstanceId = instance

is_attached_instance(volume, instance) ==
    LET response == describe_volumes(volume)
    IN  ScanAttachments(Get(response, "Attachments", <<>>), 1, instance)

\* the command mount_partition hands to os.system
MountCommand(partition, mount_point) ==
    <<"/usr/bin/mount", "/dev/disk/by-uuid/", partition, mount_point>>

\* the line fstab writes
FstabLine(partition, mount_point, fstype) ==
    <<"UUID=", partition, mount_point, fstype, "defaults,noatime 1 1">>

Bool(b) == IF b THEN "True" ELSE "False"

Log(p, e) == [trace EXCEPT ![p] = Append(@, e)]

\* the events of a trace from its last provider call on
RECURSIVE SinceCall(_)
SinceCall(t) ==
    IF Len(t) = 0 \/ t[Len(t)].ev \in {"detach", "attach"} THEN <<>>
    ELSE Append(SinceCall(SubSeq(t, 1, Len(t) - 1)), t[Len(t)])

IsPoll(e) == e.ev = "poll"

IsSleep(e) == e.ev = "sleep"

\* what the polls of the current call of volume_state_wait returned, in order
Polled(p) ==
    LET polls == SelectSeq(SinceCall(trace[p]), IsPoll)
    IN  [k \in 1..Len(polls) |-> polls[k].val]

\* where an invocation goes next: a position in main, or out of the process
\* with sys.exit(1), sys.exit(0) or the return of main (status 0)
Goto(p, target) ==
    IF target = "exit 1"
    THEN /\ pc' = [pc EXCEPT ![p] = "exited"]
         /\ exit_status' = [exit_status EXCEPT ![p] = 1]
    ELSE IF target = "exit 0"
    THEN /\ pc' = [pc EXCEPT ![p] = "exited"]
         /\ exit_status' = [exit_status EXCEPT ![p] = 0]
    ELSE /\ pc' = [pc EXCEPT ![p] = target]
         /\ UNCHANGED exit_status

---------------------------------------------------------------------------
(* main, one step per provider call, sleep or host operation *)

\* MainBranch exiting with 1 on every attached volume, forced or not
MainBranch_BlocksForced(attached, force) ==
    IF attached THEN "exit 1" ELSE "attach"

\* MainBranch with the test of args.force left out
MainBranch_IgnoresForce(attached, force) ==
    IF attached THEN "is_attached_instance" ELSE "attach"

\* line 237-246: what main does with the answer of is_attached
MainBranch(attached, force) ==
    IF attached
    THEN IF ~force THEN "exit 1" ELSE "is_attached_instance"
    ELSE "attach"

\* line 237-240: is_attached(args.volume), and the exit when force is not set
Main(p) ==
    /\ pc[p] = "main"
    /\ trace' = Log(p, Event("state", args[p].volume, "", "",
                             get_volume_state(args[p].volume)))
    /\ described' = [described EXCEPT ![p] =
                        LET l == Get(describe_volumes(args[p].volume), "Attachments", <<>>)
                        IN  [k \in 1..Len(l) |-> l[k].InstanceId]]
    /\ Goto(p, MainBranch(is_attached(args[p].volume), args[p].force))
    /\ UNCHANGED <<ec2, args, desired_state, ret, state, mounts, etc_fstab>>

\* InstanceBranch without the exit for a volume that is already here
InstanceBranch_AlwaysDetach(here) == "deattach"

\* line 242-246: what main does with the answer of is_attached_instance
InstanceBranch(here) == IF here THEN "exit 0" ELSE "deattach"

\* line 242-244: is_attached_instance(args.volume, args.instance)
IsAttachedInstance(p) ==
    /\ pc[p] = "is_attached_instance"
    /\ LET here == is_attached_instance(args[p].volume, args[p].instance)
       IN  /\ trace' = Log(p, Event("instance", args[p].volume, args[p].instance,
                                    "", Bool(here)))
           /\ Goto(p, InstanceBranch(here))
    /\ UNCHANGED <<ec2, args, desired_state, ret, state, mounts, etc_fstab, described>>

\* volume_state_wait polling before its first sleep
volume_state_wait_PollFirst(p, desired, after) ==
    /\ pc' = [pc EXCEPT ![p] = "poll"]
    /\ desired_state' = [desired_state EXCEPT ![p] = desired]
    /\ ret' = [ret EXCEPT ![p] = after]

\* entering volume_state_wait(volume, desired), to return to `after`
volume_state_wait(p, desired, after) ==
    /\ pc' = [pc EXCEPT ![p] = "sleep"]
    /\ desired_state' = [desired_state EXCEPT ![p] = desired]
    /\ ret' = [ret EXCEPT ![p] = after]

\* deattach without its volume_state_wait
deattach_NoWait(p, volume_id) ==
    /\ pc[p] = "deattach"
    /\ ec2' = [ec2 EXCEPT ![volume_id] = detach_volume(@)]
    /\ trace' = Log(p, Event("detach", volume_id, "", "", ""))
    /\ pc' = [pc EXCEPT ![p] = "attach"]
    /\ UNCHANGED <<args, desired_state, ret, state, exit_status, mounts, etc_fstab,
                   described>>

\* line 246, deattach: the detach call, then the wait for 'detached'
deattach(p, volume_id) ==
    /\ pc[p] = "deattach"
    /\ ec2' = [ec2 EXCEPT ![volume_id] = detach_volume(@)]
    /\ trace' = Log(p, Event("detach", volume_id, "", "", ""))
    /\ volume_state_wait(p, "detached", "attach")
    /\ UNCHANGED <<args, state, exit_status, mounts, etc_fstab, described>>

\* main handing deattach a volume other than args.volume
Deattach_OtherVolume(p) ==
    deattach(p, CHOOSE v \in Volumes : v # args[p].volume)

Deattach(p) == deattach(p, args[p].volume)

\* attach without its volume_state_wait
attach_NoWait(p, volume_id, instance_id, device) ==
    /\ pc[p] = "attach"
    /\ trace' = Log(p, Event("attach", volume_id, instance_id, device, ""))
    /\ ec2' = [ec2 EXCEPT ![volume_id] = attach_volume(@, instance_id, device)]
    /\ pc' = [pc EXCEPT ![p] = "mount"]
    /\ UNCHANGED <<args, desired_state, ret, state, exit_status, mounts, etc_fstab,
                   described>>

\* attach under a lock on the volume: not while another run has made its
\* attach call
attach_Locked(p, volume_id, instance_id, device) ==
    /\ pc[p] = "attach"
    /\ \A q \in Procs \ {p} : \A k \in 1..Len(trace[q]) : trace[q][k].ev # "attach"
    /\ IF attach_refused(ec2[volume_id], instance_id)
       THEN /\ trace' = [trace EXCEPT ![p] =
                            Append(Append(@, Event("attach", volume_id, instance_id, device, "")),
                                   Event("raise", "", "", "", ""))]
            /\ Goto(p, "exit 1")
            /\ UNCHANGED <<ec2, desired_state, ret>>
       ELSE /\ trace' = Log(p, Event("attach", volume_id, instance_id, device, ""))
            /\ ec2' = [ec2 EXCEPT ![volume_id] = attach_volume(@, instance_id, device)]
            /\ volume_state_wait(p, "attached", "mount")
            /\ UNCHANGED exit_status
    /\ UNCHANGED <<args, state, mounts, etc_fstab, described>>

\* line 249, attach: the attach call, then the wait for 'attached'; a call the
\* provider refuses raises, and nothing catches it: the interpreter ends with
\* status 1
attach(p, volume_id, instance_id, device) ==
    /\ pc[p] = "attach"
    /\ IF attach_refused(ec2[volume_id], instance_id)
       THEN /\ trace' = [trace EXCEPT ![p] =
                            Append(Append(@, Event("attach", volume_id, instance_id, device, "")),
                                   Event("raise", "", "", "", ""))]
            /\ Goto(p, "exit 1")
            /\ UNCHANGED <<ec2, desired_state, ret>>
       ELSE /\ trace' = Log(p, Event("attach", volume_id, instance_id, device, ""))
            /\ ec2' = [ec2 EXCEPT ![volume_id] = attach_volume(@, instance_id, device)]
            /\ volume_state_wait(p, "attached", "mount")
            /\ UNCHANGED exit_status
    /\ UNCHANGED <<args, state, mounts, etc_fstab, described>>

\* main handing attach an instance other than args.instance
Attach_OtherInstance(p) ==
    attach(p, args[p].volume, CHOOSE i \in Instances : i # args[p].instance,
           args[p].device)

Attach(p) == attach(p, args[p].volume, args[p].instance, args[p].device)

\* line 151: time.sleep(3)
Sleep(p) ==
    /\ pc[p] = "sleep"
    /\ Len(Polled(p)) < MaxPolls
    /\ trace' = Log(p, Event("sleep", "", "", "", ""))
    /\ pc' = [pc EXCEPT ![p] = "poll"]
    /\ UNCHANGED <<ec2, args, desired_state, ret, state, exit_status, mounts,
                   etc_fstab, described>>

\* AfterPoll breaking out of the loop whatever the poll returned
AfterPoll_BreaksAnyway(st, desired, after) == after

\* line 153-154: where the loop goes after a poll returned st
AfterPoll(st, desired, after) == IF st = desired THEN after ELSE "sleep"

\* Poll giving up with an exception at the second poll that is not the
\* desired state
Poll_GivesUp(p) ==
    /\ pc[p] = "poll"
    /\ LET st == get_volume_state(args[p].volume)
       IN  /\ state' = [state EXCEPT ![p] = st]
           /\ trace' = Log(p, Event("poll", args[p].volume, "", "", st))
           /\ IF st # desired_state[p] /\ Len(Polled(p)) >= 1
              THEN Goto(p, "exit 1")
              ELSE Goto(p, AfterPoll(st, desired_state[p], ret[p]))
    /\ UNCHANGED <<ec2, args, desired_state, ret, mounts, etc_fstab, described>>

\* line 152-154: one poll, and the break when it returns the desired state
Poll(p) ==
    /\ pc[p] = "poll"
    /\ LET st == get_volume_state(args[p].volume)
       IN  /\ state' = [state EXCEPT ![p] = st]
           /\ trace' = Log(p, Event("poll", args[p].volume, "", "", st))
           /\ pc' = [pc EXCEPT ![p] = AfterPoll(st, desired_state[p], ret[p])]
    /\ UNCHANGED <<ec2, args, desired_state, ret, exit_status, mounts, etc_fstab,
                   described>>

\* MountBranch letting --fstab alone decide on the fstab write
MountBranch_FstabAlone(partition, mount_point, want_fstab) ==
    IF want_fstab THEN "fstab" ELSE "exit 0"

\* line 252-256: what follows the attach, by the arguments given
MountBranch(partition, mount_point, want_fstab) ==
    IF partition # "" /\ mount_point # ""
    THEN IF want_fstab THEN "fstab" ELSE "exit 0"
    ELSE "exit 0"

\* line 252-253: mount_partition when a partition and a mount point were given
Mount(p) ==
    /\ pc[p] = "mount"
    /\ IF args[p].partition # "" /\ args[p].mount_point # ""
       THEN /\ mounts' = Append(mounts, MountCommand(args[p].partition, args[p].mount_point))
            /\ trace' = Log(p, Event("mount", "", "", "", ""))
       ELSE UNCHANGED <<mounts, trace>>
    /\ Goto(p, MountBranch(args[p].partition, args[p].mount_point, args[p].fstab))
    /\ UNCHANGED <<ec2, args, desired_state, ret, state, etc_fstab, described>>

\* fstab that drops the lines of the same UUID before it writes its own
fstab_Replaces(partition, mount_point, fstype) ==
    LET Other(l) == l[2] # partition
    IN  etc_fstab' = Append(SelectSeq(etc_fstab, Other),
                            FstabLine(partition, mount_point, fstype))

\* the append of one line to /etc/fstab
fstab(partition, mount_point, fstype) ==
    etc_fstab' = Append(etc_fstab, FstabLine(partition, mount_point, fstype))

\* line 255-256: fstab when --fstab was given, and the end of main
Fstab(p) ==
    /\ pc[p] = "fstab"
    /\ fstab(args[p].partition, args[p].mount_point, args[p].fs_type)
    /\ trace' = Log(p, Event("fstab", "", "", "", ""))
    /\ Goto(p, "exit 0")
    /\ UNCHANGED <<ec2, args, desired_state, ret, state, mounts, described>>

---------------------------------------------------------------------------
(* Specifications *)

\* the namespace of an invocation that is never started
NoArgs ==
    [volume |-> "vol-1", force |-> FALSE, device |-> DefaultDevice,
     instance |-> "i-1", partition |-> "", mount_point |-> "", fstab |-> FALSE,
     fs_type |-> DefaultFsType]

\* what /etc/fstab holds before the run
InitialFstabs == { <<FstabLine("uuid-0", "/", "ext4")>> }

\* the volume records v can start with: the provider lists an instance once
InitialRecords(v) ==
    { r \in VolumeRecords(v) : DistinctInstances(Get(r, "Attachments", <<>>)) }

\* the invocations in `running` are about to enter main; only the volumes they
\* name have attachments
InitRunning(running) ==
    /\ args \in { [p \in Procs |-> IF p \in running THEN a[p] ELSE NoArgs] :
                    a \in [running -> Namespaces] }
    /\ LET named == { args[p].volume : p \in running }
       IN  ec2 \in { [v \in Volumes |->
                        IF v \in named
                        THEN [VolumeId |-> v] @@ r[v]
                        ELSE [VolumeId |-> v, Attachments |-> <<>>]] :
                     r \in [named -> { [k \in DOMAIN x \ {"VolumeId"} |-> x[k]] :
                                         x \in InitialRecords("vol-1") }] }
    /\ described = [p \in Procs |-> <<>>]
    /\ pc = [p \in Procs |-> IF p \in running THEN "main" ELSE "off"]
    /\ desired_state = [p \in Procs |-> ""]
    /\ ret = [p \in Procs |-> ""]
    /\ state = [p \in Procs |-> ""]
    /\ trace = [p \in Procs |-> <<>>]
    /\ exit_status = [p \in Procs |-> NoStatus]
    /\ mounts = <<>>
    /\ etc_fstab \in InitialFstabs

\* one invocation, the sole actor on its volume
Init == InitRunning({"p1"})

Next ==
    \/ \E p \in Procs : Main(p)
    \/ \E p \in Procs : IsAttachedInstance(p)
    \/ \E p \in Procs : Deattach(p)
    \/ \E p \in Procs : Attach(p)
    \/ \E p \in Procs : Sleep(p)
    \/ \E p \in Procs : Poll(p)
    \/ \E p \in Procs : Mount(p)
    \/ \E p \in Procs : Fstab(p)
    \/ \E v \in Volumes : \E k \in 1..(MaxAttachments + Cardinality(Procs)) : Provider(v, k)

Spec == Init /\ [][Next]_vars

\* a step of invocation p
Step(p) ==
    \/ Main(p) \/ IsAttachedInstance(p) \/ Deattach(p) \/ Attach(p)
    \/ Sleep(p) \/ Poll(p) \/ Mount(p) \/ Fstab(p)

\* the interpreter keeps running the process: main is synchronous and
\* single-threaded, so a step that can be taken is taken; nothing is assumed
\* of the provider
SpecFair == Init /\ [][Next]_vars /\ \A p \in Procs : WF_vars(Step(p))

---------------------------------------------------------------------------
(* What a trace shows *)

\* the positions of the events of kind ev in the trace of p
Where(p, ev) == { k \in 1..Len(trace[p]) : trace[p][k].ev = ev }

\* the positions of the polls of p that returned st
PolledAt(p, st) == { k \in Where(p, "poll") : trace[p][k].val = st }

\* the first state query of p returned 'attached'
ObservedAttached(p) ==
    /\ Len(trace[p]) >= 1
    /\ trace[p][1] = Event("state", args[p].volume, "", "", "attached")

\* is_attached_instance ran in p and returned b
InstanceAnswer(p, b) ==
    /\ Len(trace[p]) >= 2
    /\ trace[p][2] = Event("instance", args[p].volume, args[p].instance, "", Bool(b))

\* the first describe_volumes of p listed the target instance
TargetListed(p) == \E k \in 1..Len(described[p]) : described[p][k] = args[p].instance

Raised(p) == Where(p, "raise") # {}

\* p is past the wait that follows its attach call
Attached(p) == pc[p] \in {"mount", "fstab", "exited"} /\ Where(p, "attach") # {} /\ ~Raised(p)

---------------------------------------------------------------------------
(* C1 *)

\* C1: a run without --force whose first state query returns 'attached' ends
\* at once with exit status 1: it makes no detach and no attach call, runs no
\* mount command and writes nothing to /etc/fstab.
C1_BlockedWithoutForce ==
    \A p \in Procs :
        (~args[p].force /\ ObservedAttached(p)) =>
            /\ pc[p] = "exited"
            /\ exit_status[p] = 1
            /\ Len(trace[p]) = 1
            /\ Where(p, "detach") = {} /\ Where(p, "attach") = {}
            /\ Where(p, "mount") = {} /\ Where(p, "fstab") = {}
            /\ mounts = <<>>
            /\ etc_fstab \in InitialFstabs

\* a run without --force found the volume attached to another instance
C1_Witness ==
    /\ ~args["p1"].force
    /\ ObservedAttached("p1")
    /\ ~TargetListed("p1")
    /\ Len(described["p1"]) >= 1
    /\ exit_status["p1"] = 1

---------------------------------------------------------------------------
(* C2 *)

\* C2: a run with --force that observes 'attached' and finds the target
\* instance among the attachments ends with exit status 0 having made no
\* detach and no attach call.
C2_NoActionAlreadyHere ==
    \A p \in Procs :
        (args[p].force /\ ObservedAttached(p) /\ InstanceAnswer(p, TRUE)) =>
            /\ pc[p] = "exited"
            /\ exit_status[p] = 0
            /\ Len(trace[p]) = 2
            /\ Where(p, "detach") = {} /\ Where(p, "attach") = {}
            /\ mounts = <<>>
            /\ etc_fstab \in InitialFstabs

\* a run with --force ended on finding the volume attached to its target
C2_Witness ==
    /\ args["p1"].force
    /\ ObservedAttached("p1")
    /\ InstanceAnswer("p1", TRUE)
    /\ exit_status["p1"] = 0

---------------------------------------------------------------------------
(* C3 *)

\* C3: in a run with --force that observes 'attached' and does not find the
\* target among the attachments, the third thing done is the detach call, there
\* is never more than one detach or attach call, an attach call comes after a
\* poll that followed the detach call and returned 'detached', and the run is
\* past the attach only with one call of each made and a poll after the attach
\* call that returned 'attached'; it then exits with status 0.
C3_ForcedDetachThenAttach ==
    \A p \in Procs :
        (args[p].force /\ ObservedAttached(p) /\ InstanceAnswer(p, FALSE)) =>
            /\ Cardinality(Where(p, "detach")) <= 1
            /\ Cardinality(Where(p, "attach")) <= 1
            /\ Len(trace[p]) >= 3 =>
                  trace[p][3] = Event("detach", args[p].volume, "", "", "")
            /\ \A a \in Where(p, "attach") :
                  \E d \in Where(p, "detach"), k \in PolledAt(p, "detached") :
                      d < k /\ k < a
            /\ pc[p] \in {"mount", "fstab", "exited"} =>
                  /\ Cardinality(Where(p, "detach")) = 1
                  /\ Cardinality(Where(p, "attach")) = 1
                  /\ \E a \in Where(p, "attach"), k \in PolledAt(p, "attached") : a < k
            /\ pc[p] = "exited" => exit_status[p] = 0

\* a forced run detached the volume from another instance, attached it and ended
C3_Witness ==
    /\ args["p1"].force
    /\ ObservedAttached("p1")
    /\ InstanceAnswer("p1", FALSE)
    /\ pc["p1"] = "exited"
    /\ Cardinality(Where("p1", "detach")) = 1
    /\ Cardinality(Where("p1", "attach")) = 1

---------------------------------------------------------------------------
(* C4 *)

\* the first describe_volumes of p listed no attachment
StartedDetached(p) == Len(trace[p]) >= 1 /\ described[p] = <<>>

\* C4: a run that finds the attachment list empty, with or without --force,
\* makes no detach call; the second thing it does is its only attach call, for
\* args.volume, args.instance and args.device; once a poll has returned
\* 'attached' it is past the wait, and it exits only with status 0, after that
\* attach call and such a poll.
C4_AttachedFresh ==
    \A p \in Procs :
        StartedDetached(p) =>
            /\ Where(p, "detach") = {}
            /\ Cardinality(Where(p, "attach")) <= 1
            /\ Len(trace[p]) >= 2 =>
                  trace[p][2] = Event("attach", args[p].volume, args[p].instance,
                                      args[p].device, "")
            /\ PolledAt(p, "attached") # {} => pc[p] \in {"mount", "fstab", "exited"}
            /\ pc[p] = "exited" =>
                  /\ exit_status[p] = 0
                  /\ Cardinality(Where(p, "attach")) = 1
                  /\ PolledAt(p, "attached") # {}

\* C4, its completion under SpecFair: a run that began with the volume detached
\* and has seen a poll return 'attached' goes on to exit with status 0.
C4_Completes ==
    \A p \in Procs :
        (StartedDetached(p) /\ PolledAt(p, "attached") # {})
            ~> (pc[p] = "exited" /\ exit_status[p] = 0)

\* a run that began with the volume detached made its one attach call and
\* exited with status 0
C4_Witness ==
    /\ StartedDetached("p1")
    /\ pc["p1"] = "exited"
    /\ exit_status["p1"] = 0
    /\ Cardinality(Where("p1", "attach")) = 1

---------------------------------------------------------------------------
(* C5 *)

\* C5: at every moment of a run it has made at most one detach call and at most
\* one attach call, a detach call only with --force and before any attach call,
\* and both calls name args.volume.
C5_AtMostOneCallEach ==
    \A p \in Procs :
        /\ Cardinality(Where(p, "detach")) \in {0, 1}
        /\ Cardinality(Where(p, "attach")) \in {0, 1}
        /\ \A d \in Where(p, "detach"), a \in Where(p, "attach") : d < a
        /\ Where(p, "detach") # {} => args[p].force
        /\ \A k \in Where(p, "detach") \cup Where(p, "attach") :
              trace[p][k].vol = args[p].volume

\* a run has made both calls
C5_Witness ==
    /\ Where("p1", "detach") # {}
    /\ Where("p1", "attach") # {}

---------------------------------------------------------------------------
(* C6 *)

---------------------------------------------------------------------------
(* C7 *)

\* p is inside volume_state_wait
Waiting(p) == pc[p] \in {"sleep", "poll"}

\* p has returned from the call of volume_state_wait that Polled(p) is about
Returned(p) ==
    \/ pc[p] = "attach" /\ Where(p, "detach") # {}
    \/ Attached(p)

\* C7: while volume_state_wait runs, no poll of this call has returned the
\* desired state; when it has returned, the last poll of the call returned the
\* desired state and no earlier one did: the polls made number the position of
\* the first occurrence of the desired state in what get_volume_state returned.
C7_ReturnsAtFirstMatch ==
    \A p \in Procs :
        LET polls == Polled(p)
        IN  /\ Waiting(p) => \A k \in 1..Len(polls) : polls[k] # desired_state[p]
            /\ Returned(p) =>
                  /\ Len(polls) >= 1
                  /\ polls[Len(polls)] = desired_state[p]
                  /\ \A k \in 1..(Len(polls) - 1) : polls[k] # desired_state[p]

\* the polls returned attaching, attaching, attached and the wait for
\* 'attached' returned after the third
C7_Witness ==
    /\ Returned("p1")
    /\ desired_state["p1"] = "attached"
    /\ Polled("p1") = <<"attaching", "attaching", "attached">>

---------------------------------------------------------------------------
(* C8 *)

\* p has made a provider call and no poll since has returned the desired state
Unanswered(p) ==
    /\ Where(p, "detach") \cup Where(p, "attach") # {}
    /\ ~Raised(p)
    /\ \A k \in 1..Len(Polled(p)) : Polled(p)[k] # desired_state[p]

\* the last event of kind ev in the trace of p, 0 if there is none
LastOf(p, ev) ==
    IF Where(p, ev) = {} THEN 0
    ELSE CHOOSE k \in Where(p, ev) : \A j \in Where(p, ev) : j <= k

\* C8: however many polls have come back with something else than the desired
\* state, the run is still inside volume_state_wait: it has not exited, it has
\* made no attach call after an unanswered detach call and no mount or fstab
\* write after an unanswered attach call; and the poll that returns the desired
\* state ends the wait.
C8_WaitHasNoLimit ==
    /\ [](\A p \in Procs :
            Unanswered(p) =>
                /\ Waiting(p)
                /\ exit_status[p] = NoStatus
                /\ Where(p, "mount") = {} /\ Where(p, "fstab") = {}
                /\ LastOf(p, "attach") = 0 \/ LastOf(p, "detach") < LastOf(p, "attach"))
    /\ [][\A p \in Procs :
            (pc[p] = "poll" /\ pc'[p] # "poll") =>
                IF state'[p] = desired_state[p]
                THEN pc'[p] = ret[p]
                ELSE pc'[p] = "sleep" /\ exit_status'[p] = NoStatus]_vars

\* every poll the bound allows returned 'busy', and the run is still waiting
C8_Witness ==
    /\ Waiting("p1")
    /\ Len(Polled("p1")) = MaxPolls
    /\ \A k \in 1..MaxPolls : Polled("p1")[k] = "busy"

---------------------------------------------------------------------------
(* C9 *)

\* C9: for every volume record the provider can hold, get_volume_state is
\* 'detached' when the record has no Attachments key or an empty list, and
\* otherwise the State of the head of the list, whatever follows it; and every
\* poll stored what get_volume_state gave.
C9_FirstAttachmentState ==
    \A v \in Volumes :
        /\ "Attachments" \notin DOMAIN ec2[v] => get_volume_state(v) = "detached"
        /\ "Attachments" \in DOMAIN ec2[v] =>
              /\ ec2[v].Attachments = <<>> => get_volume_state(v) = "detached"
              /\ ec2[v].Attachments # <<>> =>
                    get_volume_state(v) = Head(ec2[v].Attachments).State

\* the volume has two attachments in different states and the last poll
\* returned the state of the first
C9_Witness ==
    /\ "Attachments" \in DOMAIN ec2["vol-1"]
    /\ Len(ec2["vol-1"].Attachments) >= 2
    /\ ec2["vol-1"].Attachments[1].State # ec2["vol-1"].Attachments[2].State
    /\ Len(trace["p1"]) >= 1
    /\ trace["p1"][Len(trace["p1"])].ev = "poll"
    /\ trace["p1"][Len(trace["p1"])].val = ec2["vol-1"].Attachments[1].State

---------------------------------------------------------------------------
(* C10 *)

\* the attachment list of v, empty when the record has none
AttachmentsOf(v) == IF "Attachments" \in DOMAIN ec2[v] THEN ec2[v].Attachments ELSE <<>>

\* C10: is_attached_instance(v, i) is true exactly when some attachment of v,
\* at any position and in any state, has instance id i.
C10_ScansWholeList ==
    \A v \in Volumes, i \in Instances :
        is_attached_instance(v, i) <=>
            \E k \in 1..Len(AttachmentsOf(v)) : AttachmentsOf(v)[k].InstanceId = i

\* a forced run ended as already attached on finding its target in the second
\* attachment, not attached, while the state it observed, 'attached', was that
\* of the first attachment, held by another instance
C10_Witness ==
    /\ InstanceAnswer("p1", TRUE)
    /\ ObservedAttached("p1")
    /\ exit_status["p1"] = 0
    /\ Len(AttachmentsOf("vol-1")) = 2
    /\ AttachmentsOf("vol-1")[1].InstanceId # args["p1"].instance
    /\ AttachmentsOf("vol-1")[1].State = "attached"
    /\ AttachmentsOf("vol-1")[2].InstanceId = args["p1"].instance
    /\ AttachmentsOf("vol-1")[2].State # "attached"

---------------------------------------------------------------------------
(* C11 *)

\* C11: a mount command is run only in a run given both a partition and a
\* mount point, after its attach call and a later poll that returned
\* 'attached'; an fstab write is made only in a run given --fstab as well, after
\* its mount command; the host sees a mount command or a new fstab line only
\* from such a run, and a run that ended blocked or as already attached made
\* neither.
C11_MountOnlyAfterAttach ==
    /\ \A p \in Procs :
        /\ \A m \in Where(p, "mount") :
              /\ args[p].partition # "" /\ args[p].mount_point # ""
              /\ \E a \in Where(p, "attach"), k \in PolledAt(p, "attached") :
                    a < k /\ k < m
        /\ \A f \in Where(p, "fstab") :
              /\ args[p].fstab
              /\ \E m \in Where(p, "mount") : m < f
        /\ (pc[p] = "exited" /\ ObservedAttached(p) /\ Where(p, "attach") = {}) =>
              Where(p, "mount") = {} /\ Where(p, "fstab") = {}
    /\ mounts # <<>> => \E p \in Procs : Where(p, "mount") # {}
    /\ etc_fstab \notin InitialFstabs => \E p \in Procs : Where(p, "fstab") # {}

\* a run mounted the partition and wrote the fstab line, in that order
C11_Witness ==
    /\ pc["p1"] = "exited"
    /\ Where("p1", "mount") # {}
    /\ Where("p1", "fstab") # {}
    /\ Len(mounts) = 1
    /\ Len(etc_fstab) = 2

---------------------------------------------------------------------------
(* C18 *)

\* the first state query of p returned a state in transition
ObservedTransitional(p) ==
    /\ Len(trace[p]) >= 1
    /\ trace[p][1].ev = "state"
    /\ trace[p][1].val \in {"attaching", "detaching", "busy"}

\* C18: when the first state query returns 'attaching', 'detaching' or 'busy',
\* main goes to the attach call at once, with --force or without: the call is
\* the second thing the run does, and the run makes no detach call and no
\* is_attached_instance query.
C18_TransitionalIsNotAttached ==
    \A p \in Procs :
        ObservedTransitional(p) =>
            /\ Where(p, "detach") = {}
            /\ Where(p, "instance") = {}
            /\ Len(trace[p]) = 1 => pc[p] = "attach"
            /\ Len(trace[p]) >= 2 =>
                  trace[p][2] = Event("attach", args[p].volume, args[p].instance,
                                      args[p].device, "")

\* a run with --force found the volume attaching and made its attach call
C18_Witness ==
    /\ args["p1"].force
    /\ ObservedTransitional("p1")
    /\ trace["p1"][1].val = "attaching"
    /\ Where("p1", "attach") = {2}

---------------------------------------------------------------------------
(* C19 *)

IsLoopEvent(e) == e.ev \in {"sleep", "poll"}

\* the sleeps and polls of the current call of volume_state_wait, in order
Loop(p) == SelectSeq(SinceCall(trace[p]), IsLoopEvent)

\* C19: the sleeps and polls of a call of volume_state_wait alternate and begin
\* with a sleep, so every poll follows a sleep of its own; between iterations
\* and at the return the sleeps number the polls, and a call that has returned
\* has slept at least once.
C19_SleepsBeforeEveryPoll ==
    \A p \in Procs :
        LET loop == Loop(p)
            sleeps == Len(SelectSeq(loop, IsSleep))
            polls == Len(SelectSeq(loop, IsPoll))
        IN  /\ \A k \in 1..Len(loop) :
                  loop[k].ev = IF k % 2 = 1 THEN "sleep" ELSE "poll"
            /\ pc[p] = "poll" => sleeps = polls + 1
            /\ pc[p] # "poll" => sleeps = polls
            /\ Returned(p) => sleeps >= 1 /\ polls >= 1

\* the attach call has just been made on a volume whose first attachment is
\* already 'attached', and the run is at the sleep, not past the wait
C19_Witness ==
    /\ pc["p1"] = "sleep"
    /\ Where("p1", "attach") # {}
    /\ Loop("p1") = <<>>
    /\ desired_state["p1"] = "attached"
    /\ get_volume_state(args["p1"].volume) = "attached"

---------------------------------------------------------------------------
(* C20 *)

\* the attachments of the volume of p that name its target instance
TargetEntries(p) ==
    { k \in 1..Len(Get(ec2[args[p].volume], "Attachments", <<>>)) :
        ec2[args[p].volume].Attachments[k].InstanceId = args[p].instance }

\* C20, as claimed: when a run has exited with status 0 the attachment list
\* holds an entry of the target instance in state 'attached'.
C20_ExitZeroTargetAttached ==
    \A p \in Procs :
        (pc[p] = "exited" /\ exit_status[p] = 0) =>
            \E k \in TargetEntries(p) :
                ec2[args[p].volume].Attachments[k].State = "attached"

\* C20, amended: when a run has exited with status 0 the first attachment
\* listed is 'attached', and the target instance was found among the
\* attachments by is_attached_instance or has the entry the attach call of the
\* run made, 'attaching' or 'attached'; the two need not be one entry.
C20_ExitZeroFirstAttached ==
    \A p \in Procs :
        (pc[p] = "exited" /\ exit_status[p] = 0) =>
            /\ get_volume_state(args[p].volume) = "attached"
            /\ Len(Get(ec2[args[p].volume], "Attachments", <<>>)) >= 1
            /\ \/ InstanceAnswer(p, TRUE)
               \/ /\ Where(p, "attach") # {}
                  /\ \E k \in TargetEntries(p) :
                        ec2[args[p].volume].Attachments[k].State
                            \in {"attaching", "attached"}

\* a run attached the volume and exited with 0 on the 'attached' of another
\* instance's entry while its own is still 'attaching'
C20_Witness ==
    /\ pc["p1"] = "exited"
    /\ exit_status["p1"] = 0
    /\ Where("p1", "attach") # {}
    /\ ec2["vol-1"].Attachments[1].InstanceId # args["p1"].instance
    /\ \E k \in TargetEntries("p1") : ec2["vol-1"].Attachments[k].State = "attaching"

---------------------------------------------------------------------------
(* Failures of the provider and of the host *)

\* the provider calls main makes, by position
ProviderCalls == {"main", "is_attached_instance", "deattach", "attach", "poll"}

\* the trace of p with the detach or attach call it is about to make
WithCall(p) ==
    IF pc[p] = "deattach"
    THEN Append(trace[p], Event("detach", args[p].volume, "", "", ""))
    ELSE IF pc[p] = "attach"
    THEN Append(trace[p], Event("attach", args[p].volume, args[p].instance,
                                args[p].device, ""))
    ELSE trace[p]

\* the provider call p is at raises and is tried again
ProviderError_Retried(p) ==
    /\ pc[p] \in ProviderCalls
    /\ trace' = [trace EXCEPT ![p] = Append(WithCall(p), Event("raise", "", "", "", ""))]
    /\ UNCHANGED <<ec2, args, pc, desired_state, ret, state, exit_status, mounts,
                   etc_fstab, described>>

\* the provider call p is at (describe_volumes of line 121 or 201,
\* detach_volume, attach_volume) raises: the provider's records stay as they
\* are, nothing catches the exception and the interpreter ends with status 1
ProviderError(p) ==
    /\ pc[p] \in ProviderCalls
    /\ trace' = [trace EXCEPT ![p] = Append(WithCall(p), Event("raise", "", "", "", ""))]
    /\ Goto(p, "exit 1")
    /\ UNCHANGED <<ec2, args, desired_state, ret, state, mounts, etc_fstab, described>>

\* the mount command fails and the failure is raised, as check_call would
MountFails_Checked(p) ==
    /\ pc[p] = "mount"
    /\ args[p].partition # "" /\ args[p].mount_point # ""
    /\ mounts' = Append(mounts, MountCommand(args[p].partition, args[p].mount_point))
    /\ trace' = [trace EXCEPT ![p] =
                    Append(Append(@, Event("mount", "", "", "", "failed")),
                           Event("raise", "", "", "", "OSError"))]
    /\ Goto(p, "exit 1")
    /\ UNCHANGED <<ec2, args, desired_state, ret, state, etc_fstab, described>>

\* line 216: the mount command fails; os.system returns its status, which
\* mount_partition drops
MountFails(p) ==
    /\ pc[p] = "mount"
    /\ args[p].partition # "" /\ args[p].mount_point # ""
    /\ mounts' = Append(mounts, MountCommand(args[p].partition, args[p].mount_point))
    /\ trace' = Log(p, Event("mount", "", "", "", "failed"))
    /\ Goto(p, MountBranch(args[p].partition, args[p].mount_point, args[p].fstab))
    /\ UNCHANGED <<ec2, args, desired_state, ret, state, etc_fstab, described>>

\* the fstab write fails inside a try block that passes
FstabFails_Swallowed(p) ==
    /\ pc[p] = "fstab"
    /\ trace' = Log(p, Event("fstab", "", "", "", "failed"))
    /\ Goto(p, "exit 0")
    /\ UNCHANGED <<ec2, args, desired_state, ret, state, mounts, etc_fstab, described>>

\* line 227-230: open or write raises OSError; fstab has no handler and main
\* none, so the interpreter ends with status 1 and /etc/fstab is as it was
FstabFails(p) ==
    /\ pc[p] = "fstab"
    /\ trace' = [trace EXCEPT ![p] =
                    Append(Append(@, Event("fstab", "", "", "", "failed")),
                           Event("raise", "", "", "", "OSError"))]
    /\ Goto(p, "exit 1")
    /\ UNCHANGED <<ec2, args, desired_state, ret, state, mounts, etc_fstab, described>>

NextFault ==
    \/ Next
    \/ \E p \in Procs : ProviderError(p)
    \/ \E p \in Procs : MountFails(p)
    \/ \E p \in Procs : FstabFails(p)

\* one invocation, with calls that may fail
SpecFault == Init /\ [][NextFault]_vars

\* a provider call of p raised
ProviderRaised(p) == \E k \in Where(p, "raise") : trace[p][k].val = ""

\* the positions of the events of kind ev in the trace of p that failed
FailedAt(p, ev) == { k \in Where(p, ev) : trace[p][k].val = "failed" }

---------------------------------------------------------------------------
(* C13 *)

\* the attach call of p raised after its forced detach was answered
AttachFailedAfterDetach(p) ==
    /\ ProviderRaised(p)
    /\ Where(p, "detach") # {}
    /\ PolledAt(p, "detached") # {}
    /\ Len(trace[p]) >= 2
    /\ trace[p][Len(trace[p]) - 1].ev = "attach"

\* C13: a provider call that raises is not retried: the run has ended with a
\* non-zero status at that call, the exception is the last and only one of
\* its events, so that no provider call follows it, and no mount command and
\* no fstab write were made; when the failing call is the attach that follows
\* an answered forced detach, no attachment is put back: no entry of the
\* volume is 'attaching' or 'attached'.
C13_ProviderFailureStops ==
    \A p \in Procs :
        ProviderRaised(p) =>
            /\ pc[p] = "exited"
            /\ exit_status[p] # NoStatus /\ exit_status[p] # 0
            /\ Where(p, "raise") = {Len(trace[p])}
            /\ Where(p, "mount") = {} /\ Where(p, "fstab") = {}
            /\ mounts = <<>> /\ etc_fstab \in InitialFstabs
            /\ AttachFailedAfterDetach(p) =>
                  /\ Cardinality(Where(p, "detach")) = 1
                  /\ Cardinality(Where(p, "attach")) = 1
                  /\ \A k \in 1..Len(AttachmentsOf(args[p].volume)) :
                        AttachmentsOf(args[p].volume)[k].State
                            \notin {"attaching", "attached"}

\* the attach call of p1 failed after the detach it forced, and the volume
\* is left with no attachment
C13_Witness ==
    /\ AttachFailedAfterDetach("p1")
    /\ described["p1"] # <<>>
    /\ AttachmentsOf(args["p1"].volume) = <<>>
    /\ exit_status["p1"] = 1

---------------------------------------------------------------------------
(* C15 *)

\* C15: the status of the mount command is not looked at: after a mount that
\* failed the run goes on as after one that succeeded; with --fstab it is at
\* the fstab write or has made it, without --fstab it has exited with
\* status 0, and whenever it has exited without an exception the status is 0.
C15_MountFailureIgnored ==
    \A p \in Procs :
        \A m \in FailedAt(p, "mount") :
            /\ args[p].fstab =>
                  \/ pc[p] = "fstab"
                  \/ \E f \in Where(p, "fstab") : f = m + 1
            /\ ~args[p].fstab => pc[p] = "exited"
            /\ (pc[p] = "exited" /\ ~Raised(p)) => exit_status[p] = 0

\* the mount of p1 failed, the fstab line was written all the same and the
\* run ended with status 0
C15_Witness ==
    /\ FailedAt("p1", "mount") # {}
    /\ Where("p1", "fstab") # {}
    /\ Len(etc_fstab) = 2
    /\ pc["p1"] = "exited"
    /\ exit_status["p1"] = 0

---------------------------------------------------------------------------
(* C16 *)

\* C16, as claimed: a run whose fstab write failed still ends with status 0.
C16_FstabFailureIgnored ==
    \A p \in Procs :
        FailedAt(p, "fstab") # {} => (pc[p] = "exited" => exit_status[p] = 0)

\* C16, as the code has it: a failure of the fstab write is not caught: the
\* exception ends the run with exit status 1, after the attach call and the
\* mount command, with /etc/fstab left as it was.
C16_FstabFailureRaises ==
    \A p \in Procs :
        FailedAt(p, "fstab") # {} =>
            /\ pc[p] = "exited"
            /\ exit_status[p] = 1
            /\ Where(p, "raise") = {Len(trace[p])}
            /\ FailedAt(p, "fstab") = {Len(trace[p]) - 1}
            /\ Where(p, "mount") = {Len(trace[p]) - 2}
            /\ Where(p, "attach") # {}
            /\ Len(mounts) = 1
            /\ etc_fstab \in InitialFstabs

\* the fstab write of p1 failed after the volume was attached and mounted,
\* and the run ended with status 1
C16_Witness ==
    /\ FailedAt("p1", "fstab") # {}
    /\ FailedAt("p1", "mount") = {}
    /\ PolledAt("p1", "attached") # {}
    /\ pc["p1"] = "exited"
    /\ exit_status["p1"] = 1

---------------------------------------------------------------------------
(* The command line, the environment and the metadata service *)

\* what requests.get on the metadata url comes back with: a response, or an
\* exception (no route, timeout after REQUESTS_TIMEOUT)
Responses == { [ok |-> TRUE, text |-> "i-1"], [ok |-> FALSE] }

\* os.environ: INSTANCE_ID is set or not
Environs == { [PATH |-> "/usr/bin", INSTANCE_ID |-> "i-2"], [PATH |-> "/usr/bin"] }

\* sys.argv, parsed: --instance is given or not
Argvs == { [prog |-> "attach-volume", instance |-> "i-3"], [prog |-> "attach-volume"] }

\* lines 35-54: the text of the response, '' when the request raised
get_instanceid(response) == IF response.ok THEN response.text ELSE ""

\* os.getenv(name, default)
getenv(environ, name, default) == Get(environ, name, default)

\* parse_args: the value given on the command line, the default without one
parse_args(argv, dest, default) == Get(argv, dest, default)

\* "set" or "unset", "given" or "absent": whether a mapping holds a key
Has(mapping, key, yes, no) == IF key \in DOMAIN mapping THEN yes ELSE no

\* line 84 and line 107: the default of --instance is the value of
\* os.getenv('INSTANCE_ID', get_instanceid()); python evaluates the
\* arguments of a call before the call, so the metadata request is made
\* first, whatever the environment holds
Options(p) ==
    /\ pc[p] = "options"
    /\ \E response \in Responses, environ \in Environs, argv \in Argvs :
          LET fallback == get_instanceid(response)
              default  == getenv(environ, "INSTANCE_ID", fallback)
              instance == parse_args(argv, "instance", default)
          IN  /\ trace' = [trace EXCEPT ![p] =
                    @ \o << Event("metadata", "", "", "", fallback),
                            Event("getenv", "", Get(environ, "INSTANCE_ID", ""), "",
                                  Has(environ, "INSTANCE_ID", "set", "unset")),
                            Event("argv", "", Get(argv, "instance", ""), "",
                                  Has(argv, "instance", "given", "absent")) >>]
              /\ args' = [args EXCEPT ![p].instance = instance]
    /\ pc' = [pc EXCEPT ![p] = "main"]
    /\ UNCHANGED <<ec2, desired_state, ret, state, exit_status, mounts, etc_fstab,
                   described>>

\* the command lines of the runs that start at _options: --instance is left
\* to Options; the run mounts and persists, or does neither
OptionNamespaces ==
    { a \in [volume : {"vol-1"}, force : BOOLEAN, device : {DefaultDevice},
             instance : {""}, partition : {"", "uuid-1"},
             mount_point : {"", "/mnt/data"}, fstab : BOOLEAN,
             fs_type : {DefaultFsType}] :
        /\ (a.partition = "") = (a.mount_point = "")
        /\ a.fstab = (a.partition # "") }

\* p1 is about to call _options
InitOptions ==
    /\ args \in { [p \in Procs |-> IF p = "p1" THEN a ELSE NoArgs] :
                    a \in OptionNamespaces }
    /\ ec2 \in { [v \in Volumes |->
                    IF v = "vol-1" THEN r
                    ELSE [VolumeId |-> v, Attachments |-> <<>>]] :
                 r \in InitialRecords("vol-1") }
    /\ described = [p \in Procs |-> <<>>]
    /\ pc = [p \in Procs |-> IF p = "p1" THEN "options" ELSE "off"]
    /\ desired_state = [p \in Procs |-> ""]
    /\ ret = [p \in Procs |-> ""]
    /\ state = [p \in Procs |-> ""]
    /\ trace = [p \in Procs |-> <<>>]
    /\ exit_status = [p \in Procs |-> NoStatus]
    /\ mounts = <<>>
    /\ etc_fstab \in InitialFstabs

NextOptions ==
    \/ \E p \in Procs : Options(p)
    \/ Next

\* one invocation, from the parsing of its command line
SpecOptions == InitOptions /\ [][NextOptions]_vars

\* INSTANCE_ID was set when p parsed its options
InstanceIdSet(p) == \E k \in Where(p, "getenv") : trace[p][k].val = "set"

---------------------------------------------------------------------------
(* C17 *)

\* C17: when INSTANCE_ID is set, the run makes no request to the metadata
\* service, and its target instance is the value of the variable unless
\* --instance is given.
C17_EnvShortCircuitsMetadata ==
    \A p \in Procs :
        InstanceIdSet(p) =>
            /\ Where(p, "metadata") = {}
            /\ \A k \in Where(p, "getenv"), a \in Where(p, "argv") :
                  trace[p][a].val = "absent" => args[p].instance = trace[p][k].inst

\* C17, the part the code keeps: with INSTANCE_ID set the target instance is
\* the value of the variable unless --instance is given, and then the value
\* given; the answer of the metadata service is not used.
C17_EnvOverridesMetadata ==
    \A p \in Procs :
        InstanceIdSet(p) =>
            \A k \in Where(p, "getenv"), a \in Where(p, "argv") :
                args[p].instance =
                    IF trace[p][a].val = "absent" THEN trace[p][k].inst
                    ELSE trace[p][a].inst

\* p1 ran with INSTANCE_ID set and no --instance, asked the metadata service
\* all the same, and attached the volume to the instance the variable names
C17_RequestMadeAnyway ==
    /\ InstanceIdSet("p1")
    /\ \E a \in Where("p1", "argv") : trace["p1"][a].val = "absent"
    /\ Where("p1", "metadata") # {}
    /\ args["p1"].instance = "i-2"
    /\ \E k \in Where("p1", "attach") : trace["p1"][k].inst = "i-2"
    /\ pc["p1"] = "exited" /\ exit_status["p1"] = 0

---------------------------------------------------------------------------
(* Two invocations on one volume *)

\* the command lines of two runs started for the same volume on two
\* instances; both mount and persist the same partition, the first may force
TwoNamespaces(instance, forces) ==
    [volume : {"vol-1"}, force : forces, device : {DefaultDevice},
     instance : {instance}, partition : {"uuid-1"}, mount_point : {"/mnt/data"},
     fstab : {TRUE}, fs_type : {DefaultFsType}]

\* p1 and p2 are about to enter main; the volume has at most one attachment
InitTwo ==
    /\ args \in { [p \in Procs |-> IF p = "p1" THEN a ELSE b] :
                    a \in TwoNamespaces("i-1", BOOLEAN),
                    b \in TwoNamespaces("i-2", {FALSE}) }
    /\ ec2 \in { [v \in Volumes |->
                    IF v = "vol-1" THEN r
                    ELSE [VolumeId |-> v, Attachments |-> <<>>]] :
                 r \in { x \in InitialRecords("vol-1") :
                           Len(Get(x, "Attachments", <<>>)) <= 1 } }
    /\ described = [p \in Procs |-> <<>>]
    /\ pc = [p \in Procs |-> "main"]
    /\ desired_state = [p \in Procs |-> ""]
    /\ ret = [p \in Procs |-> ""]
    /\ state = [p \in Procs |-> ""]
    /\ trace = [p \in Procs |-> <<>>]
    /\ exit_status = [p \in Procs |-> NoStatus]
    /\ mounts = <<>>
    /\ etc_fstab \in InitialFstabs

\* the provider may refuse a call of either run
NextTwo ==
    \/ Next
    \/ \E p \in Procs : ProviderError(p)

\* two invocations for the same volume, started together
SpecTwo == InitTwo /\ [][NextTwo]_vars

---------------------------------------------------------------------------
(* C14 *)

\* the first state query of p returned something else than 'attached'
ObservedNotAttached(p) ==
    /\ Len(trace[p]) >= 1
    /\ trace[p][1].ev = "state"
    /\ trace[p][1].val # "attached"

\* C14: nothing stands between the state read and the attach call: a run
\* that has observed the volume as not attached is at its attach call, which
\* it can make whatever the other run has done, or has made it as the next
\* thing after the read, for its volume and its instance.
C14_AttachFollowsReadUnguarded ==
    \A p \in Procs :
        ObservedNotAttached(p) =>
            \/ /\ Len(trace[p]) = 1
               /\ pc[p] = "attach"
               /\ ENABLED Attach(p)
            \/ /\ Len(trace[p]) >= 2
               /\ trace[p][2].ev = "attach"
               /\ trace[p][2].vol = args[p].volume
               /\ trace[p][2].inst = args[p].instance

\* both runs found the same volume without an attachment and both made an
\* attach call for it, each for its own instance: the volume has an entry of
\* each
C14_Witness ==
    /\ args["p1"].volume = args["p2"].volume
    /\ \A p \in Procs :
          /\ ObservedNotAttached(p)
          /\ described[p] = <<>>
          /\ Where(p, "attach") = {2}
          /\ ~Raised(p)
    /\ Len(AttachmentsOf(args["p1"].volume)) = 2
    /\ AttachmentsOf(args["p1"].volume)[1].InstanceId
          # AttachmentsOf(args["p1"].volume)[2].InstanceId

---------------------------------------------------------------------------
(* C12 *)

\* the run p made its fstab call in this step
WritesFstab(p) == pc[p] = "fstab" /\ pc'[p] # "fstab" /\ ~Raised(p)'

\* C12: fstab only appends: a step in which a run calls fstab adds exactly
\* one line, the line of its arguments, after the lines there were, whether
\* or not that line is there already; no other step changes the file. So n
\* calls with the same arguments leave n equal lines.
C12_FstabAppendsOneLine ==
    [][ /\ \A p \in Procs :
              WritesFstab(p) =>
                  etc_fstab' = Append(etc_fstab,
                                      FstabLine(args[p].partition, args[p].mount_point,
                                                args[p].fs_type))
        /\ (\A p \in Procs : ~WritesFstab(p)) => etc_fstab' = etc_fstab ]_vars

\* two runs with the same partition, mount point and filesystem type have
\* both written: the file holds the line it had and twice the same line
C12_Witness ==
    /\ \A p \in Procs : Where(p, "fstab") # {} /\ FailedAt(p, "fstab") = {}
    /\ args["p1"].partition = args["p2"].partition
    /\ Len(etc_fstab) = 3
    /\ <<etc_fstab[1]>> \in InitialFstabs
    /\ etc_fstab[2] = etc_fstab[3]
    /\ etc_fstab[3] = FstabLine(args["p1"].partition, args["p1"].mount_point,
                                args["p1"].fs_type)

===========================================================================
